---------------------------- MODULE Spec2Model ----------------------------
(***************************************************************************)
(* EduSong: the audio-job workflow of server/routes.ts over the song store *)
(* of server/storage.ts and the provider wrappers of server/suno.ts.       *)
(*                                                                         *)
(* Every request handler is a sequence of steps separated by the awaits of *)
(* its code; handlers of different requests interleave at those awaits.    *)
(* JavaScript values are tagged records, so that undefined, null, strings, *)
(* arrays and objects stay distinct and property access, truthiness and    *)
(* === behave as they do in the program.                                   *)
(***************************************************************************)
EXTENDS Integers, Sequences, FiniteSets, TLC

VARIABLES
    songs,      \* MemStorage.songs: the Map from song id to Song
    nextId,     \* the ids randomUUID has handed out so far (ids are fresh)
    now,        \* the wall clock at the latest new Date()
    inflight,   \* the requests whose handler is suspended at an await
    nextReq,    \* number of requests received so far
    lastResp,   \* the response most recently sent with res.json / res.send
    hist,       \* history: the audioUrl writes that reached the store
    sunoStatus, \* SpecStatus only: the answer of the provider's status endpoint
    documents,  \* MemStorage.documents: the Map from document id to Document
    nextDoc,    \* the document ids randomUUID has handed out so far
    callbackBody, \* SpecCallback only: the body the provider delivers
    page,       \* the state of the Generate page: its useState cells
    polls,      \* the calls of pollForAudio that have not sent their fetch
    aiReply     \* SpecGenerate only: the answer of the text-generation call

vars == <<songs, nextId, now, inflight, nextReq, lastResp, hist, sunoStatus,
          documents, nextDoc, callbackBody, page, polls, aiReply>>

---------------------------------------------------------------------------
(* Bounds *)

MaxSongs == 2       \* songs ever created
MaxReqs == 3        \* requests ever received
MaxDocs == 1        \* documents ever uploaded

---------------------------------------------------------------------------
(* JavaScript values *)

Undef == [k |-> "undefined"]
JNull == [k |-> "null"]
Str(s) == [k |-> "string", s |-> s]
Arr(es) == [k |-> "array", es |-> es]
Obj(f) == [k |-> "object", f |-> f]
Bool(b) == [k |-> "boolean", b |-> b]
Num(n) == [k |-> "number", n |-> n]
\* a string of n characters whose content does not matter
Text(n) == [k |-> "string", s |-> "", len |-> n]

\* v.name : reading a property of undefined or null throws a TypeError
Throws(v) == v.k \in {"undefined", "null"}

Get(v, name) ==
    IF v.k = "object" /\ name \in DOMAIN v.f THEN v.f[name] ELSE Undef

\* v[0] on an array
First(v) ==
    IF v.k = "array" /\ Len(v.es) > 0 THEN v.es[1] ELSE Undef

\* v?.name
OptGet(v, name) == IF Throws(v) THEN Undef ELSE Get(v, name)

Truthy(v) ==
    \/ v.k \in {"object", "array"}
    \/ v.k = "string" /\ (v.s # "" \/ ("len" \in DOMAIN v /\ v.len > 0))
    \/ v.k = "boolean" /\ v.b
    \/ v.k = "number" /\ v.n # 0

\* a || b
OrElse(a, b) == IF Truthy(a) THEN a ELSE b

\* a ?? b
Coalesce(a, b) == IF a.k \in {"undefined", "null"} THEN b ELSE a

IsArray(v) == v.k = "array"

\* a === b on the primitive values of the model
StrictEq(a, b) == a = b

\* the JSON object with the properties of rec that are not undefined
Json(rec) == Obj([n \in {m \in DOMAIN rec : rec[m] # Undef} |-> rec[n]])


---------------------------------------------------------------------------
(* Input alphabets *)

SongIds == 1..MaxSongs
JobIds == {"j1", "j2"}
Urls == {"u1", "u2"}

---------------------------------------------------------------------------
(* server/storage.ts : MemStorage *)

NoSong == Undef     \* Map.get / Array.find on a miss

\* song?.field
SongGet(song, field) == IF song = NoSong THEN Undef ELSE song[field]

\* getSong(id)
getSong(store, id) == IF id \in DOMAIN store THEN store[id] ELSE NoSong

\* b sorts before a in getSongs: Array.sort is stable, so songs created in
\* the same millisecond keep the Map's insertion order (oldest id first)
Before(a, b) ==
    \/ a.createdAt > b.createdAt
    \/ a.createdAt = b.createdAt /\ a.id < b.id

RECURSIVE SortSongs(_)
SortSongs(set) ==
    IF set = {} THEN <<>>
    ELSE LET head == CHOOSE a \in set : \A b \in set \ {a} : Before(a, b)
         IN  <<head>> \o SortSongs(set \ {head})

\* getSongs(): all songs, newest first
getSongs(store) == SortSongs({store[i] : i \in DOMAIN store})

\* createSong(insertSong): the stored Song for a fresh id
createSong(insertSong, id, date) ==
    [id |-> id,
     title |-> Get(insertSong, "title"),
     topic |-> Get(insertSong, "topic"),
     lyrics |-> Get(insertSong, "lyrics"),
     rhythmPattern |-> Coalesce(Get(insertSong, "rhythmPattern"), JNull),
     culturalNotes |-> Coalesce(Get(insertSong, "culturalNotes"), JNull),
     musicalStyle |-> Coalesce(Get(insertSong, "musicalStyle"), JNull),
     sourceDocumentId |-> Coalesce(Get(insertSong, "sourceDocumentId"), JNull),
     sourceText |-> Coalesce(Get(insertSong, "sourceText"), JNull),
     audioUrl |-> Coalesce(Get(insertSong, "audioUrl"), JNull),
     sunoJobId |-> Coalesce(Get(insertSong, "sunoJobId"), JNull),
     createdAt |-> date]

\* { ...updates, ...existing }
SpreadKeepExisting(existing, updates) ==
    [f \in DOMAIN existing \cup DOMAIN updates |->
        IF f \in DOMAIN existing THEN existing[f] ELSE updates[f]]

\* { ...existing, ...updates }
Spread(existing, updates) ==
    [f \in DOMAIN existing \cup DOMAIN updates |->
        IF f \in DOMAIN updates THEN updates[f] ELSE existing[f]]

\* an updateSong that stores the updates under a missing id too
updateSongUpsert(store, id, updates) ==
    IF id \notin DOMAIN store
    THEN [i \in DOMAIN store \cup {id} |->
             IF i = id THEN Spread([id |-> id], updates) ELSE store[i]]
    ELSE [store EXCEPT ![id] = Spread(store[id], updates)]

\* an updateSong that stores the updates in place of the song
updateSongReplace(store, id, updates) ==
    IF id \notin DOMAIN store THEN store
    ELSE [store EXCEPT ![id] = updates]

\* an updateSong that builds the updated song and never stores it
updateSongUnsaved(store, id, updates) == store

\* updateSong(id, updates): the Map afterwards; a missing id is left missing
updateSong(store, id, updates) ==
    IF id \notin DOMAIN store THEN store
    ELSE [store EXCEPT ![id] = Spread(store[id], updates)]

\* deleteSong(id): the Map afterwards
deleteSong(store, id) == [i \in DOMAIN store \ {id} |-> store[i]]

---------------------------------------------------------------------------
(* client/src/pages/generate.tsx : the state of the page *)

\* lines 31-34 and 51: generatedSong, audioUrl and audioStatus as useState
\* sets them, and generateMutation.isPending
NewPage ==
    [generatedSong |-> JNull, audioUrl |-> JNull, audioStatus |-> "idle",
     isPending |-> FALSE]

\* a step of the server during which the page does nothing
PageIdle == UNCHANGED <<page, polls>>

---------------------------------------------------------------------------
(* Requests and responses *)

\* new Date(): a later millisecond than the previous reading, or the same
\* one, which only shows when a song stored in that millisecond is still there
Dates ==
    {now + 1} \cup {d \in {now} : \E i \in DOMAIN songs : songs[i].createdAt = d}

NoResp == [kind |-> "none"]

\* the locals of a handler that are not kept with its response
Locals == {"rid", "pc", "song", "data", "generated"}

\* res.status(code).json(body) of request r; what the handler did (its
\* counters of calls and writes) is kept with the response
Respond(r, code, body) ==
    /\ inflight' = {q \in inflight : q.rid # r.rid}
    /\ lastResp' = [f \in (DOMAIN r \ Locals) \cup {"code", "body"} |->
                       IF f = "code" THEN code
                       ELSE IF f = "body" THEN body ELSE r[f]]

Message(m) == Json([message |-> Str(m)])

\* request r is answered in this step
Answered(r) == r \in inflight /\ \A q \in inflight' : q.rid # r.rid

\* a new request enters its handler
NewReq(kind) == [rid |-> nextReq + 1, kind |-> kind]

Suspend(r, pc, locals) ==
    [f \in DOMAIN r \cup DOMAIN locals \cup {"pc"} |->
        IF f = "pc" THEN pc
        ELSE IF f \in DOMAIN locals THEN locals[f] ELSE r[f]]

\* the write of {audioUrl} that reaches the store for song id
Written(id, kind, url) ==
    IF id \in DOMAIN songs
    THEN hist' = [hist EXCEPT ![id] = [n |-> @.n + 1,
                                      urls |-> @.urls \cup {<<kind, url>>}]]
    ELSE hist' = hist


---------------------------------------------------------------------------
(* POST /api/suno/callback *)

\* one output object of the provider, with or without its audio_url
Track(url) == Json([audio_url |-> url])

\* the payloads the provider (or anyone else) may deliver
CallbackData ==
    {Json([task_id |-> t, callbackType |-> c, data |-> d]) :
        t \in {Undef, JNull} \cup {Str(j) : j \in JobIds},
        c \in {Undef, Str("complete"), Str("text")},
        d \in {Undef, Arr(<<>>), Arr(<<Track(Undef)>>)}
              \cup {Arr(<<Track(Str(u))>>) : u \in Urls}}

CallbackBodies == {Json([data |-> d]) : d \in CallbackData \cup {Undef}}

\* the payloads that report a finished job with its audio URL
CompletionBodies ==
    {Json([data |-> Json([task_id |-> t, callbackType |-> Str("complete"),
                          data |-> Arr(<<Track(Str(u))>>)])]) :
        t \in {Undef, JNull} \cup {Str(j) : j \in JobIds}, u \in Urls}

\* find that also skips the songs already resolved
CallbackFindUnresolved(list, taskId) ==
    LET hits == {i \in 1..Len(list) :
                    StrictEq(list[i].sunoJobId, taskId) /\ ~Truthy(list[i].audioUrl)}
    IN  IF hits = {} THEN NoSong
        ELSE list[CHOOSE i \in hits : \A j \in hits : i <= j]

\* find with ==, which takes undefined for null
CallbackFindLoose(list, taskId) ==
    LET same(a, b) == StrictEq(a, b) \/ (Throws(a) /\ Throws(b))
        hits == {i \in 1..Len(list) : same(list[i].sunoJobId, taskId)}
    IN  IF hits = {} THEN NoSong
        ELSE list[CHOOSE i \in hits : \A j \in hits : i <= j]

\* songs.find(s => s.sunoJobId === taskId)
CallbackFind(list, taskId) ==
    LET hits == {i \in 1..Len(list) : StrictEq(list[i].sunoJobId, taskId)}
    IN  IF hits = {} THEN NoSong
        ELSE list[CHOOSE i \in hits : \A j \in hits : i <= j]

\* the test of line 273 without its callbackType
CallbackAudioUrlAnyType(data) ==
    IF /\ Truthy(Get(data, "data"))
       /\ Truthy(OptGet(First(Get(data, "data")), "audio_url"))
    THEN Get(First(Get(data, "data")), "audio_url")
    ELSE Undef

\* the audio_url the handler writes, undefined when the test of line 273 fails
CallbackAudioUrl(data) ==
    IF /\ StrictEq(Get(data, "callbackType"), Str("complete"))
       /\ Truthy(Get(data, "data"))
       /\ Truthy(OptGet(First(Get(data, "data")), "audio_url"))
    THEN Get(First(Get(data, "data")), "audio_url")
    ELSE Undef

\* lines 262-280 run from start to end with no other request in between:
\* the Map after one delivery of body
Deliver(store, body) ==
    LET data == Get(body, "data")
        song == CallbackFind(getSongs(store), Get(data, "task_id"))
        audioUrl == CallbackAudioUrl(data)
    IN  IF Throws(data) \/ song = NoSong \/ audioUrl = Undef THEN store
        ELSE updateSong(store, song.id, [audioUrl |-> audioUrl])

\* history: taskId is the sunoJobId of a song in the store
KnownJob(store, taskId) == \E i \in DOMAIN store : store[i].sunoJobId = taskId

\* lines 262-266: the body is destructured and the songs are listed; the
\* request keeps the song find will return on that list and the URL of the
\* payload, both of which are functions of values fixed at this point, and
\* whether the job id was that of a stored song when the songs were listed
CallbackReceive(body) ==
    /\ nextReq < MaxReqs
    /\ nextReq' = nextReq + 1
    /\ LET r == NewReq("callback")
           data == Get(body, "data")
       IN  IF Throws(data)
           THEN Respond(r, 500, Message("Failed to process callback"))
           ELSE /\ inflight' = inflight \cup
                     {Suspend(r, "getSongs",
                         [song |-> CallbackFind(getSongs(songs), Get(data, "task_id")),
                          audioUrl |-> CallbackAudioUrl(data),
                          known |-> KnownJob(songs, Get(data, "task_id"))])}
                /\ UNCHANGED lastResp
    /\ UNCHANGED <<songs, nextId, now, hist, sunoStatus, documents, nextDoc, callbackBody, aiReply>>

\* lines 267-280: no song, no completed audio, or the write; the response
\* that follows the write is sent in the same step, nothing reads the
\* request in between
CallbackUpdate(r) ==
    /\ r \in inflight /\ r.kind = "callback" /\ r.pc = "getSongs"
    /\ IF r.song = NoSong
       THEN /\ Respond(r, 404, Message("Song not found"))
            /\ UNCHANGED <<songs, hist>>
       ELSE IF r.audioUrl = Undef
       THEN /\ Respond(r, 200, Json([received |-> Bool(TRUE)]))
            /\ UNCHANGED <<songs, hist>>
       ELSE /\ songs' = updateSong(songs, r.song.id, [audioUrl |-> r.audioUrl])
            /\ Written(r.song.id, "callback", r.audioUrl)
            /\ Respond(r, 200, Json([received |-> Bool(TRUE)]))
    /\ UNCHANGED <<nextId, now, nextReq, sunoStatus, documents, nextDoc, callbackBody, aiReply>>


---------------------------------------------------------------------------
(* server/suno.ts : getSunoMusicDetails, and GET /api/songs/:id/audio *)

\* axios rejects: the provider answered with an error status (job unknown)
Thrown == [k |-> "throw"]

Markers == {Undef, Str("complete"), Str("text")}

\* the job-output field: absent, a sequence of output objects, or one object
Outputs ==
    {Undef, Arr(<<>>), Arr(<<Track(Undef)>>), Track(Undef)}
    \cup {Arr(<<Track(Str(u))>>) : u \in Urls}
    \cup {Track(Str(u)) : u \in Urls}

TaskPayloads ==
    {Json([data |-> o, callbackType |-> c, audio_url |-> t]) :
        o \in Outputs, c \in Markers, t \in {Undef} \cup {Str(u) : u \in Urls}}

Wrapped(p) == Json([data |-> p])

\* response.data of the status call: a task payload, bare or wrapped once,
\* an empty or null body, or a rejection
StatusReplies ==
    TaskPayloads \cup {Wrapped(p) : p \in TaskPayloads}
    \cup {JNull, Str(""), Thrown}

\* line 307
taskData(sunoData) == OrElse(Get(sunoData, "data"), sunoData)

\* line 310
songArray(sunoData) == Get(taskData(sunoData), "data")

\* the top-level audio_url is looked at first
audio_urlTopFirst(sunoData) ==
    LET arr == songArray(sunoData)
    IN  IF Truthy(Get(taskData(sunoData), "audio_url"))
        THEN Get(taskData(sunoData), "audio_url")
        ELSE IF IsArray(arr) /\ Truthy(OptGet(First(arr), "audio_url"))
        THEN Get(First(arr), "audio_url")
        ELSE IF Truthy(OptGet(arr, "audio_url"))
        THEN Get(arr, "audio_url")
        ELSE JNull

\* lines 315-322
audio_url(sunoData) ==
    LET arr == songArray(sunoData)
    IN  IF IsArray(arr) /\ Truthy(OptGet(First(arr), "audio_url"))
        THEN Get(First(arr), "audio_url")
        ELSE IF Truthy(OptGet(arr, "audio_url"))
        THEN Get(arr, "audio_url")
        ELSE IF Truthy(Get(taskData(sunoData), "audio_url"))
        THEN Get(taskData(sunoData), "audio_url")
        ELSE JNull

\* the marker is looked for under another name
isFinishedByStatus(sunoData) ==
    StrictEq(Get(taskData(sunoData), "status"), Str("complete"))

\* line 325
isFinished(sunoData) ==
    StrictEq(Get(taskData(sunoData), "callbackType"), Str("complete"))

\* a URL alone counts as completion
AudioCompletesUrlOnly(reply) ==
    /\ reply # Thrown
    /\ ~Throws(reply)
    /\ Truthy(audio_url(reply))

\* the test of line 327 without its audio_url
AudioCompletesFinishedOnly(reply) ==
    /\ reply # Thrown
    /\ ~Throws(reply)
    /\ isFinished(reply)

\* line 327, with the catch of line 339 for a rejected call or a body whose
\* properties cannot be read
AudioCompletes(reply) ==
    /\ reply # Thrown
    /\ ~Throws(reply)
    /\ isFinished(reply)
    /\ Truthy(audio_url(reply))

Running == Json([status |-> Str("running")])
Success(url) == Json([status |-> Str("success"), audioUrl |-> url])

\* song?.audio_url, a property no Song has
HasAudioSnake(song) == Truthy(Undef)

\* line 291: song?.audioUrl
HasAudio(song) == Truthy(SongGet(song, "audioUrl"))

\* the test of the record only: !song
NoJobMissingOnly(song) == song = NoSong

\* line 298: !song?.sunoJobId
NoJob(song) == ~Truthy(SongGet(song, "sunoJobId"))

\* line 289: the record is read
AudioReceive(id) ==
    /\ nextReq < MaxReqs
    /\ nextReq' = nextReq + 1
    /\ inflight' = inflight \cup
          {Suspend(NewReq("audio"), "getSong",
              [id |-> id, song |-> getSong(songs, id),
               calls |-> 0, wrote |-> Undef, caught |-> FALSE])}
    /\ UNCHANGED <<songs, nextId, now, lastResp, hist, sunoStatus, documents, nextDoc, callbackBody, aiReply>>

\* lines 291-302: answer from the record, or ask the provider
AudioCheck(r) ==
    /\ r \in inflight /\ r.kind = "audio" /\ r.pc = "getSong"
    /\ IF HasAudio(r.song)
       THEN Respond(r, 200, Success(SongGet(r.song, "audioUrl")))
       ELSE IF NoJob(r.song)
       THEN Respond(r, 200, Running)
       ELSE /\ inflight' = (inflight \ {r}) \cup
                   {Suspend(r, "getSunoMusicDetails", [calls |-> r.calls + 1])}
            /\ UNCHANGED lastResp
    /\ UNCHANGED <<songs, nextId, now, nextReq, hist, sunoStatus, documents, nextDoc, callbackBody, aiReply>>

\* the try block throws: the call is rejected (line 302), or its body is
\* null or undefined and line 307 reads a property of it
StatusThrows(reply) == reply = Thrown \/ Throws(reply)

\* a catch that reports the failure to the caller
AudioCatchError(r) ==
    Respond(Suspend(r, r.pc, [caught |-> TRUE]), 500,
            Message("Failed to check audio status"))

\* lines 339-343: the catch of the handler
AudioCatch(r) == Respond(Suspend(r, r.pc, [caught |-> TRUE]), 200, Running)

\* lines 302-337 and 339-343: the provider answered reply
AudioDetails(r, reply) ==
    /\ r \in inflight /\ r.kind = "audio" /\ r.pc = "getSunoMusicDetails"
    /\ IF StatusThrows(reply)
       THEN /\ AudioCatch(r)
            /\ UNCHANGED <<songs, hist>>
       ELSE IF AudioCompletes(reply)
       THEN /\ songs' = updateSong(songs, r.id, [audioUrl |-> audio_url(reply)])
            /\ Written(r.id, "audio", audio_url(reply))
            /\ inflight' = (inflight \ {r}) \cup
                   {Suspend(r, "updateSong", [wrote |-> audio_url(reply)])}
            /\ UNCHANGED lastResp
       ELSE /\ Respond(r, 200, Running)
            /\ UNCHANGED <<songs, hist>>
    /\ UNCHANGED <<nextId, now, nextReq, sunoStatus, documents, nextDoc, callbackBody, aiReply>>

\* lines 330-333
AudioRespond(r) ==
    /\ r \in inflight /\ r.kind = "audio" /\ r.pc = "updateSong"
    /\ Respond(r, 200, Success(r.wrote))
    /\ UNCHANGED <<songs, nextId, now, nextReq, hist, sunoStatus, documents, nextDoc, callbackBody, aiReply>>


---------------------------------------------------------------------------
(* server/routes.ts : generateSongWithAI *)

\* The text of the model is kept by what the handler looks at: whether it
\* is wrapped in ``` fences, and what is left once the fences are removed
\* and the rest is trimmed: nothing, prose, or the text of a JSON value v.
AiText(fenced, blank, rest) ==
    [k |-> "string", s |-> "ai", fenced |-> fenced, blank |-> blank, rest |-> rest]

Nothing == [is |-> "nothing"]
Prose == [is |-> "prose"]
JsonText(v) == [is |-> "json", v |-> v]

\* text.replace(/```json|```/g, "").trim()
cleanJson(text) == IF text = Str("") THEN Nothing ELSE text.rest

\* the test without the trim: !text
TrimIsEmptyUntrimmed(text) == text = Str("")

\* text.trim() is empty: only white space, and no fence
TrimIsEmpty(text) ==
    \/ text = Str("")
    \/ ~text.fenced /\ text.rest = Nothing

\* JSON.parse throws on anything but the text of a JSON value
ParseThrows(clean) == clean.is # "json"

AiError == [k |-> "throw"]

Defaults == [title |-> Str("Untitled Song"), topic |-> Str("General"),
             lyrics |-> Str(""), rhythmPattern |-> Str(""),
             culturalNotes |-> Str("")]

\* the text without its fences and surrounding white space
Cleaned(text) == [text EXCEPT !.fenced = FALSE]

\* the fallback with the cleaned text for lyrics
ParseFallbackCleaned(text) == Json([Defaults EXCEPT !.lyrics = Cleaned(text)])

\* lines 143-151: the catch of JSON.parse
ParseFallback(text) == Json([Defaults EXCEPT !.lyrics = text])

\* a catch that answers the defaults instead of throwing
generateSongWithAISwallow(reply) ==
    [threw |-> FALSE, value |-> Json(Defaults)]

\* the defaults for the whole object as soon as one property is missing
generateSongWithAIAllOrNothing(reply) ==
    IF \A f \in DOMAIN Defaults : Truthy(Get(cleanJson(reply).v, f))
    THEN [threw |-> FALSE,
          value |-> Json([f \in DOMAIN Defaults |-> Get(cleanJson(reply).v, f)])]
    ELSE [threw |-> FALSE, value |-> Json(Defaults)]

\* lines 115-164 for the reply of openai.chat.completions.create, which is
\* AiError or the value of response.choices[0]?.message?.content
generateSongWithAI(reply) ==
    IF reply = AiError THEN [threw |-> TRUE]
    ELSE LET text == OrElse(reply, Str(""))
         IN  IF TrimIsEmpty(text)
             THEN [threw |-> FALSE, value |-> Json(Defaults)]
             ELSE LET parsed == IF ParseThrows(cleanJson(text))
                                THEN ParseFallback(text)
                                ELSE cleanJson(text).v
                  IN  IF Throws(parsed) THEN [threw |-> TRUE]
                      ELSE [threw |-> FALSE,
                            value |-> Json([f \in DOMAIN Defaults |->
                                         OrElse(Get(parsed, f), Defaults[f])])]

FullSong == Json([title |-> Str("T"), topic |-> Str("Tp"), lyrics |-> Str("L"),
                  rhythmPattern |-> Str("R"), culturalNotes |-> Str("C")])
PartSong == Json([topic |-> Str("Tp"), lyrics |-> Str("L")])

\* what the model may answer
AiTexts ==
    {Undef, AiText(FALSE, TRUE, Nothing), AiText(FALSE, FALSE, Prose),
     AiText(TRUE, FALSE, JsonText(FullSong)), AiText(FALSE, FALSE, JsonText(PartSong)),
     AiText(FALSE, FALSE, JsonText(JNull)),
     Str(""), AiText(TRUE, FALSE, Nothing), AiText(TRUE, FALSE, Prose),
     AiText(FALSE, FALSE, JsonText(Num(42))), AiText(TRUE, FALSE, JsonText(Arr(<<>>))),
     AiText(FALSE, FALSE, JsonText(Str("la la")))}

\* the five properties the prompt asks for (lines 106-112)
FieldNames == DOMAIN Defaults

\* a JSON object of the model's answer: the properties in present are there,
\* those in falsy with the value v, the others with a non-empty string
SongObject(present, falsy, v) ==
    Json([f \in FieldNames |->
            IF f \notin present THEN Undef
            ELSE IF f \in falsy THEN v
            ELSE FullSong.f[f]])

\* the answers that parse to an object: every subset of the five properties,
\* and objects where some property is there with an empty string or null
AiObjects ==
    {AiText(FALSE, FALSE, JsonText(SongObject(present, {}, Undef))) :
        present \in SUBSET FieldNames}
    \cup {AiText(FALSE, FALSE, JsonText(SongObject(FieldNames, falsy, Str("")))) :
        falsy \in {{"title"}, {"topic"}, {"lyrics"}, FieldNames}}
    \cup {AiText(TRUE, FALSE, JsonText(SongObject({"title", "lyrics"}, {"title"}, JNull)))}

\* the answers the server is run against: the call fails, or it returns the
\* requested JSON in a fence
AiReplies == {AiError, AiText(TRUE, FALSE, JsonText(FullSong))}

---------------------------------------------------------------------------
(* server/suno.ts : generateMusicWithSuno *)

\* the outcome of fetch: it rejects, or it resolves with response.ok and
\* the JSON of the body
SunoReply(ok, json) == [k |-> "response", ok |-> ok, json |-> json]

SunoReplies ==
    {Thrown, SunoReply(FALSE, Json([msg |-> Str("error")])),
     SunoReply(TRUE, Json([code |-> Str("429"), data |-> JNull])),
     SunoReply(TRUE, Json([data |-> Json([taskId |-> Undef])]))}
    \cup {SunoReply(TRUE, Json([data |-> Json([taskId |-> Str(j)])])) : j \in JobIds}

\* lines 16-42
generateMusicWithSuno(reply) ==
    IF reply = Thrown \/ ~reply.ok THEN [threw |-> TRUE]
    ELSE IF Throws(reply.json) \/ Throws(Get(reply.json, "data"))
    THEN [threw |-> TRUE]
    ELSE [threw |-> FALSE,
          value |-> [sunoJobId |-> Get(Get(reply.json, "data"), "taskId")]]


---------------------------------------------------------------------------
(* shared/schema.ts : generateSongRequestSchema, and POST /api/songs/generate *)

MinContent == 10
MaxSourceText == 500

Styles == {"traditional", "highlife", "afrobeat", "palm-wine"}
Complexities == {"simple", "moderate", "advanced"}

IsString(v) == v.k = "string"
Length(v) == IF "len" \in DOMAIN v THEN v.len ELSE 0

\* content.substring(0, 500)
Substring(v, n) == IF Length(v) <= n THEN v ELSE Text(n)

\* z.string().optional() / z.enum(...).default(d) on one property
OptionalOk(v, allowed) == v = Undef \/ (IsString(v) /\ v.s \in allowed)

\* the schema without .min(10)
SchemaOkAnyLength(body) ==
    /\ IsString(Get(body, "content"))
    /\ Get(body, "documentId") = Undef \/ IsString(Get(body, "documentId"))
    /\ OptionalOk(Get(body, "musicalStyle"), Styles)
    /\ OptionalOk(Get(body, "complexity"), Complexities)

\* safeParse(req.body): success, and the data with the defaults filled in
SchemaOk(body) ==
    /\ IsString(Get(body, "content"))
    /\ Length(Get(body, "content")) >= MinContent
    /\ Get(body, "documentId") = Undef \/ IsString(Get(body, "documentId"))
    /\ OptionalOk(Get(body, "musicalStyle"), Styles)
    /\ OptionalOk(Get(body, "complexity"), Complexities)

SchemaData(body) ==
    [content |-> Get(body, "content"),
     documentId |-> Get(body, "documentId"),
     musicalStyle |-> Coalesce(Get(body, "musicalStyle"), Str("traditional")),
     complexity |-> Coalesce(Get(body, "complexity"), Str("simple"))]

\* request bodies of every kind the schema tells apart
AllGenerateBodies ==
    {Json([content |-> Text(10)]),
     Json([content |-> Text(501), documentId |-> Str("d1"),
           musicalStyle |-> Str("highlife"), complexity |-> Str("moderate")]),
     Json([content |-> Text(9)]),
     Json([content |-> Text(10), musicalStyle |-> Str("jazz")]),
     Json([content |-> Text(10), complexity |-> Str("expert")]),
     Json([musicalStyle |-> Str("afrobeat")])}

\* the bodies the server is run against: one the schema accepts, one it rejects
GenerateBodies ==
    {Json([content |-> Text(501), documentId |-> Str("d1")]),
     Json([content |-> Text(9)])}

\* lines 349-360: validate, then ask the model for the lyrics
GenerateReceive(body) ==
    /\ nextReq < MaxReqs
    /\ nextReq' = nextReq + 1
    /\ LET r == Suspend(NewReq("generate"), "validate",
                    [ai |-> 0, suno |-> 0, created |-> 0])
       IN  IF ~SchemaOk(body)
           THEN Respond(r, 400, Message("Invalid request"))
           ELSE /\ inflight' = inflight \cup
                     {Suspend(r, "generateSongWithAI",
                         [data |-> SchemaData(body), ai |-> 1])}
                /\ UNCHANGED lastResp
    /\ UNCHANGED <<songs, nextId, now, hist, sunoStatus, documents, nextDoc, callbackBody, aiReply>>

\* lines 360-367: the lyrics arrive, the job is submitted
GenerateLyrics(r, reply) ==
    /\ r \in inflight /\ r.kind = "generate" /\ r.pc = "generateSongWithAI"
    /\ LET generated == generateSongWithAI(reply)
       IN  IF generated.threw
           THEN Respond(r, 500, Message("Failed to generate song"))
           ELSE /\ inflight' = (inflight \ {r}) \cup
                     {Suspend(r, "generateMusicWithSuno",
                         [generated |-> generated.value, suno |-> 1])}
                /\ UNCHANGED lastResp
    /\ UNCHANGED <<songs, nextId, now, nextReq, hist, sunoStatus, documents, nextDoc, callbackBody, aiReply>>

\* the InsertSong of lines 375-385
GenerateInsert(r, sunoResult) ==
    Json([title |-> Get(r.generated, "title"),
          topic |-> Get(r.generated, "topic"),
          lyrics |-> Get(r.generated, "lyrics"),
          rhythmPattern |-> Get(r.generated, "rhythmPattern"),
          culturalNotes |-> Get(r.generated, "culturalNotes"),
          musicalStyle |-> r.data.musicalStyle,
          sourceDocumentId |-> OrElse(r.data.documentId, JNull),
          sourceText |-> Substring(r.data.content, MaxSourceText),
          sunoJobId |-> sunoResult.sunoJobId])

\* the Map after this.songs.set(id, song) for a new song
Insert(store, song) ==
    [i \in DOMAIN store \cup {song.id} |->
        IF i = song.id THEN song ELSE store[i]]

\* lines 363-393: the provider answered the submission; the song is stored
\* and returned, or the request fails
GenerateSubmit(r, reply) ==
    /\ r \in inflight /\ r.kind = "generate" /\ r.pc = "generateMusicWithSuno"
    /\ LET sunoResult == generateMusicWithSuno(reply)
       IN  IF sunoResult.threw
           THEN /\ Respond(r, 500, Message("Suno API error"))
                /\ UNCHANGED <<songs, nextId, now>>
           ELSE /\ nextId < MaxSongs
                /\ \E date \in Dates :
                     LET song == createSong(GenerateInsert(r, sunoResult.value),
                                            nextId + 1, date)
                     IN  /\ songs' = Insert(songs, song)
                         /\ nextId' = nextId + 1
                         /\ now' = date
                         /\ Respond(Suspend(r, "createSong", [created |-> song.id]),
                                    201, song)
    /\ UNCHANGED <<nextReq, hist, sunoStatus, documents, nextDoc, callbackBody, aiReply>>

---------------------------------------------------------------------------
(* POST /api/songs and DELETE /api/songs/:id *)

CreateBodies ==
    {Json([title |-> Str("T"), topic |-> Str("Tp"), lyrics |-> Str("L")]),
     Json([title |-> Str("T"), topic |-> Str("Tp"), lyrics |-> Str("L"),
           audioUrl |-> Str("u1"), sunoJobId |-> Str("j1")])}

\* the InsertSong of lines 398-407
SongsInsert(body) ==
    Json([title |-> Get(body, "title"),
          topic |-> Get(body, "topic"),
          lyrics |-> Get(body, "lyrics"),
          rhythmPattern |-> OrElse(Get(body, "rhythmPattern"), JNull),
          culturalNotes |-> OrElse(Get(body, "culturalNotes"), JNull),
          musicalStyle |-> OrElse(Get(body, "musicalStyle"), JNull),
          sourceDocumentId |-> OrElse(Get(body, "sourceDocumentId"), JNull),
          sourceText |-> OrElse(Get(body, "sourceText"), JNull)])

\* lines 396-412
SongsCreate(body) ==
    /\ nextReq < MaxReqs /\ nextId < MaxSongs
    /\ nextReq' = nextReq + 1
    /\ \E date \in Dates :
         LET song == createSong(SongsInsert(body), nextId + 1, date)
         IN  /\ songs' = Insert(songs, song)
             /\ nextId' = nextId + 1
             /\ now' = date
             /\ Respond(Suspend(NewReq("songs"), "createSong", [created |-> song.id]),
                        201, song)
    /\ UNCHANGED <<hist, sunoStatus, documents, nextDoc, callbackBody, aiReply>>

\* lines 414-424
SongsDelete(id) ==
    /\ nextReq < MaxReqs
    /\ nextReq' = nextReq + 1
    /\ songs' = deleteSong(songs, id)
    /\ LET r == Suspend(NewReq("delete"), "deleteSong", [id |-> id])
       IN  IF id \in DOMAIN songs
           THEN Respond(r, 204, Undef)
           ELSE Respond(r, 404, Message("Song not found"))
    /\ UNCHANGED <<nextId, now, hist, sunoStatus, documents, nextDoc, callbackBody, aiReply>>

---------------------------------------------------------------------------
(* POST /api/documents/upload and DELETE /api/documents/:id *)

DocIds == 1..MaxDocs

\* req.file as multer leaves it: absent, or a file of some type whose
\* bytes the extractor can read or not
File(mimetype, readable) ==
    [k |-> "object", mimetype |-> mimetype, readable |-> readable]

Files ==
    {Undef, File("text/plain", TRUE), File("application/pdf", TRUE),
     File("application/pdf", FALSE), File("image/png", TRUE)}

Extractable ==
    {"text/plain", "application/pdf",
     "application/vnd.openxmlformats-officedocument.wordprocessingml.document"}

\* extractTextFromFile: the text, or an Error for a type it does not know
\* or bytes the parser rejects
extractTextFromFile(file) ==
    IF file.mimetype \notin Extractable THEN [threw |-> TRUE]
    ELSE IF file.mimetype # "text/plain" /\ ~file.readable THEN [threw |-> TRUE]
    ELSE [threw |-> FALSE, value |-> Text(20)]

\* createDocument(insertDocument): the stored Document for a fresh id
createDocument(insertDocument, id, date) ==
    [id |-> id,
     filename |-> insertDocument.filename,
     originalName |-> insertDocument.originalName,
     mimeType |-> insertDocument.mimeType,
     size |-> insertDocument.size,
     content |-> insertDocument.content,
     uploadedAt |-> date]

\* deleteDocument(id): the Map afterwards
deleteDocument(store, id) == [i \in DOMAIN store \ {id} |-> store[i]]

\* lines 194-224
DocumentsUpload(file) ==
    /\ nextReq < MaxReqs
    /\ nextReq' = nextReq + 1
    /\ LET r == NewReq("upload")
           content == extractTextFromFile(file)
       IN  IF file = Undef
           THEN /\ Respond(r, 400, Message("No file uploaded"))
                /\ UNCHANGED <<documents, nextDoc, now>>
           ELSE IF content.threw
           THEN /\ Respond(r, 500, Message("Failed to upload document"))
                /\ UNCHANGED <<documents, nextDoc, now>>
           ELSE /\ nextDoc < MaxDocs
                /\ \E date \in Dates :
                     LET document ==
                             createDocument(
                                 [filename |-> Str("f"), originalName |-> Str("f"),
                                  mimeType |-> Str(file.mimetype), size |-> 20,
                                  content |-> content.value],
                                 nextDoc + 1, date)
                     IN  /\ documents' =
                                [i \in DOMAIN documents \cup {document.id} |->
                                    IF i = document.id THEN document ELSE documents[i]]
                         /\ nextDoc' = nextDoc + 1
                         /\ now' = date
                         /\ Respond(r, 201, document)
    /\ UNCHANGED <<songs, nextId, hist, sunoStatus, callbackBody, aiReply>>

\* lines 226-237
DocumentsDelete(id) ==
    /\ nextReq < MaxReqs
    /\ nextReq' = nextReq + 1
    /\ documents' = deleteDocument(documents, id)
    /\ LET r == Suspend(NewReq("deleteDocument"), "deleteDocument", [id |-> id])
       IN  IF id \in DOMAIN documents
           THEN Respond(r, 204, Undef)
           ELSE Respond(r, 404, Message("Document not found"))
    /\ UNCHANGED <<songs, nextId, now, hist, sunoStatus, nextDoc, callbackBody, aiReply>>

---------------------------------------------------------------------------
(* The server *)

NoWrites == [i \in SongIds |-> [n |-> 0, urls |-> {}]]

Init ==
    /\ songs = <<>>
    /\ nextId = 0
    /\ now = 0
    /\ inflight = {}
    /\ nextReq = 0
    /\ lastResp = NoResp
    /\ hist = NoWrites
    /\ sunoStatus = Undef
    /\ documents = <<>>
    /\ nextDoc = 0
    /\ callbackBody = Undef
    /\ page = NewPage
    /\ polls = {}
    /\ aiReply = Undef

Next ==
    \/ \E body \in CallbackBodies : CallbackReceive(body) /\ PageIdle
    \/ \E r \in inflight : CallbackUpdate(r) /\ PageIdle
    \/ \E id \in SongIds : AudioReceive(id) /\ PageIdle
    \/ \E r \in inflight : AudioCheck(r) /\ PageIdle
    \/ \E r \in inflight, reply \in StatusReplies : AudioDetails(r, reply) /\ PageIdle
    \/ \E r \in inflight : AudioRespond(r) /\ PageIdle
    \/ \E body \in GenerateBodies : GenerateReceive(body) /\ PageIdle
    \/ \E r \in inflight, reply \in AiReplies : GenerateLyrics(r, reply) /\ PageIdle
    \/ \E r \in inflight, reply \in SunoReplies : GenerateSubmit(r, reply) /\ PageIdle
    \/ \E body \in CreateBodies : SongsCreate(body) /\ PageIdle
    \/ \E id \in SongIds : SongsDelete(id) /\ PageIdle

Spec == Init /\ [][Next]_vars


---------------------------------------------------------------------------
(* The status poll against one fixed answer of the provider *)

\* a song as POST /api/songs/generate stores it, job submitted as j1
SubmittedSong ==
    createSong(Json([title |-> Str("T"), topic |-> Str("Tp"), lyrics |-> Str("L"),
                     rhythmPattern |-> Str("R"), culturalNotes |-> Str("C"),
                     musicalStyle |-> Str("traditional"),
                     sourceDocumentId |-> JNull, sourceText |-> Text(10),
                     sunoJobId |-> Str("j1")]), 1, 1)

InitStatus ==
    /\ songs = Insert(<<>>, SubmittedSong)
    /\ nextId = 1
    /\ now = 1
    /\ inflight = {}
    /\ nextReq = 0
    /\ lastResp = NoResp
    /\ hist = NoWrites
    /\ sunoStatus \in StatusReplies
    /\ documents = <<>>
    /\ nextDoc = 0
    /\ callbackBody = Undef
    /\ page = NewPage
    /\ polls = {}
    /\ aiReply = Undef

NextStatus ==
    \/ \E id \in SongIds : AudioReceive(id) /\ PageIdle
    \/ \E r \in inflight : AudioCheck(r) /\ PageIdle
    \/ \E r \in inflight : AudioDetails(r, sunoStatus) /\ PageIdle
    \/ \E r \in inflight : AudioRespond(r) /\ PageIdle

SpecStatus == InitStatus /\ [][NextStatus]_vars

---------------------------------------------------------------------------
(* The audio jobs and the documents over a store that holds two songs *)

\* a song as POST /api/songs stores it: no job, no audio
PlainSong ==
    createSong(SongsInsert(Json([title |-> Str("T"), topic |-> Str("Tp"),
                                 lyrics |-> Str("L")])), 2, 2)

InitStore ==
    /\ songs = Insert(Insert(<<>>, SubmittedSong), PlainSong)
    /\ nextId = 2
    /\ now = 2
    /\ inflight = {}
    /\ nextReq = 0
    /\ lastResp = NoResp
    /\ hist = NoWrites
    /\ sunoStatus = Undef
    /\ documents = <<>>
    /\ nextDoc = 0
    /\ callbackBody = Undef
    /\ page = NewPage
    /\ polls = {}
    /\ aiReply = Undef

\* the provider's status answers this store is polled against: the call
\* is rejected, the job is still running, or it is finished with a URL
StoreReplies ==
    {Thrown, Wrapped(Json([data |-> JNull, callbackType |-> Str("text")]))}
    \cup {Wrapped(Json([data |-> Arr(<<Track(Str(u))>>),
                        callbackType |-> Str("complete")])) : u \in Urls}

NextStore ==
    \/ \E body \in CallbackBodies : CallbackReceive(body) /\ PageIdle
    \/ \E r \in inflight : CallbackUpdate(r) /\ PageIdle
    \/ \E id \in SongIds : AudioReceive(id) /\ PageIdle
    \/ \E r \in inflight : AudioCheck(r) /\ PageIdle
    \/ \E r \in inflight, reply \in StoreReplies : AudioDetails(r, reply) /\ PageIdle
    \/ \E r \in inflight : AudioRespond(r) /\ PageIdle
    \/ \E id \in SongIds : SongsDelete(id) /\ PageIdle
    \/ \E file \in Files : DocumentsUpload(file) /\ PageIdle
    \/ \E id \in DocIds : DocumentsDelete(id) /\ PageIdle

SpecStore == InitStore /\ [][NextStore]_vars

---------------------------------------------------------------------------
(* The webhook against one fixed body, over the store that holds two songs *)

InitCallback ==
    /\ songs = Insert(Insert(<<>>, SubmittedSong), PlainSong)
    /\ nextId = 2
    /\ now = 2
    /\ inflight = {}
    /\ nextReq = 0
    /\ lastResp = NoResp
    /\ hist = NoWrites
    /\ sunoStatus = Undef
    /\ documents = <<>>
    /\ nextDoc = 0
    /\ callbackBody \in CallbackBodies
    /\ page = NewPage
    /\ polls = {}
    /\ aiReply = Undef

NextCallback ==
    \/ CallbackReceive(callbackBody) /\ PageIdle
    \/ \E r \in inflight : CallbackUpdate(r) /\ PageIdle
    \/ \E id \in SongIds : SongsDelete(id) /\ PageIdle

SpecCallback == InitCallback /\ [][NextCallback]_vars

---------------------------------------------------------------------------
(* The status poll of one submitted song, polled again and again while the *)
(* provider works on the job and after it has finished                     *)

\* the provider's answer while the job runs, and once it is finished
PendingReply == Wrapped(Json([callbackType |-> Str("text")]))
CompleteReply(u) ==
    Wrapped(Json([data |-> Arr(<<Track(Str(u))>>), callbackType |-> Str("complete")]))

InitLive ==
    /\ songs = Insert(<<>>, SubmittedSong)
    /\ nextId = 1
    /\ now = 1
    /\ inflight = {}
    /\ nextReq = 0
    /\ lastResp = NoResp
    /\ hist = NoWrites
    /\ sunoStatus = PendingReply
    /\ documents = <<>>
    /\ nextDoc = 0
    /\ callbackBody = Undef
    /\ page = NewPage
    /\ polls = {}
    /\ aiReply = Undef

\* the provider finishes the job: from now on its status endpoint answers
\* complete with the URL of the audio
ProviderFinishes(u) ==
    /\ sunoStatus = PendingReply
    /\ sunoStatus' = CompleteReply(u)
    /\ UNCHANGED <<songs, nextId, now, inflight, nextReq, lastResp, hist,
                   documents, nextDoc, callbackBody, aiReply>>

\* the server keeps no count of its requests: their numbers only tell the
\* suspended handlers apart, and start again once no handler is suspended
AllAnswered ==
    /\ inflight = {} /\ nextReq = MaxReqs
    /\ nextReq' = 0
    /\ UNCHANGED <<songs, nextId, now, inflight, lastResp, hist, sunoStatus,
                   documents, nextDoc, callbackBody, aiReply>>

\* the steps of the handler of request number n
AudioStep(n) ==
    \E r \in inflight :
        /\ r.rid = n
        /\ AudioCheck(r) \/ AudioDetails(r, sunoStatus) \/ AudioRespond(r)

NextLive ==
    \/ \E id \in SongIds : AudioReceive(id) /\ PageIdle
    \/ \E n \in 1..MaxReqs : AudioStep(n) /\ PageIdle
    \/ \E u \in Urls : ProviderFinishes(u) /\ PageIdle
    \/ AllAnswered /\ PageIdle

\* a suspended handler is resumed while there is one (the provider answers
\* the status calls), and song 1 keeps being polled: a poll of it can be sent at
\* any time, so it is sent again and again whatever else is requested
SpecLive ==
    /\ InitLive /\ [][NextLive]_vars
    /\ WF_vars((\E n \in 1..MaxReqs : AudioStep(n)) /\ PageIdle)
    /\ SF_vars(AudioReceive(1) /\ PageIdle)
    /\ WF_vars(AllAnswered /\ PageIdle)

---------------------------------------------------------------------------
(* POST /api/songs/generate against one fixed answer of the model *)

InitGenerate ==
    /\ songs = <<>>
    /\ nextId = 0
    /\ now = 0
    /\ inflight = {}
    /\ nextReq = 0
    /\ lastResp = NoResp
    /\ hist = NoWrites
    /\ sunoStatus = Undef
    /\ documents = <<>>
    /\ nextDoc = 0
    /\ callbackBody = Undef
    /\ page = NewPage
    /\ polls = {}
    /\ aiReply \in AiTexts \cup {AiError}

NextGenerate ==
    \/ \E body \in AllGenerateBodies : GenerateReceive(body) /\ PageIdle
    \/ \E r \in inflight : GenerateLyrics(r, aiReply) /\ PageIdle
    \/ \E r \in inflight, reply \in SunoReplies : GenerateSubmit(r, reply) /\ PageIdle

SpecGenerate == InitGenerate /\ [][NextGenerate]_vars

---------------------------------------------------------------------------
(* POST /api/songs/generate against an answer that parses to an object *)

InitLyrics ==
    /\ songs = <<>>
    /\ nextId = 0
    /\ now = 0
    /\ inflight = {}
    /\ nextReq = 0
    /\ lastResp = NoResp
    /\ hist = NoWrites
    /\ sunoStatus = Undef
    /\ documents = <<>>
    /\ nextDoc = 0
    /\ callbackBody = Undef
    /\ page = NewPage
    /\ polls = {}
    /\ aiReply \in AiObjects

\* the submission fails, or the provider names a job
SubmitReplies ==
    {Thrown, SunoReply(TRUE, Json([data |-> Json([taskId |-> Str("j1")])]))}

NextLyrics ==
    \/ \E body \in GenerateBodies : GenerateReceive(body) /\ PageIdle
    \/ \E r \in inflight : GenerateLyrics(r, aiReply) /\ PageIdle
    \/ \E r \in inflight, reply \in SubmitReplies : GenerateSubmit(r, reply) /\ PageIdle

SpecLyrics == InitLyrics /\ [][NextLyrics]_vars

---------------------------------------------------------------------------
(* client/src/pages/generate.tsx : the page and the server it talks to *)

\* a call of pollForAudio(songId) that has not sent its fetch: the call
\* of line 70, or the callback setTimeout holds (line 150)
Poll(songId, at) == [songId |-> songId, at |-> at]

\* the values the form lets through (zodResolver, lines 20-25)
FormValues == {body \in GenerateBodies : SchemaOk(body)}

\* lines 158-163: onSubmit, whose button is disabled while the mutation is
\* pending (line 310); the request reaches the server
onSubmit(values) ==
    /\ ~page.isPending
    /\ GenerateReceive(values)
    /\ page' = [generatedSong |-> JNull, audioUrl |-> JNull,
                audioStatus |-> "idle", isPending |-> TRUE]
    /\ UNCHANGED polls

\* lines 57-72: onSuccess(data)
onSuccess(data) ==
    /\ page' = [generatedSong |-> data, audioUrl |-> JNull,
                audioStatus |-> "running", isPending |-> FALSE]
    /\ polls' = polls \cup {Poll(data.id, "call")}

\* lines 73-79: onError
onError ==
    /\ page' = [page EXCEPT !.isPending = FALSE]
    /\ UNCHANGED polls

\* the server works on the generation; the page gets its answer
PageGenerateLyrics(r, reply) ==
    /\ GenerateLyrics(r, reply)
    /\ IF Answered(r) THEN onError ELSE PageIdle

PageGenerateSubmit(r, reply) ==
    /\ GenerateSubmit(r, reply)
    /\ IF lastResp'.code = 201 THEN onSuccess(lastResp'.body) ELSE onError

\* line 134: the fetch of a pending pollForAudio reaches the server
pollForAudio(p) ==
    /\ p \in polls
    /\ AudioReceive(p.songId)
    /\ polls' = polls \ {p}
    /\ UNCHANGED page

\* lines 134 and 152-154: the fetch is rejected, the catch logs it
pollForAudioFails(p) ==
    /\ p \in polls
    /\ polls' = polls \ {p}
    /\ UNCHANGED <<songs, nextId, now, inflight, nextReq, lastResp, hist,
                   sunoStatus, documents, nextDoc, callbackBody, page, aiReply>>

\* lines 135-151: the answer of the poll of songId
pollForAudioAnswer(songId, data) ==
    IF Get(data, "status") = Str("success")
    THEN /\ page' = [page EXCEPT !.audioUrl = Get(data, "audioUrl"),
                                 !.audioStatus = "success"]
         /\ UNCHANGED polls
    ELSE IF Get(data, "status") = Str("running")
    THEN /\ page' = [page EXCEPT !.audioStatus = "running"]
         /\ polls' = polls \cup {Poll(songId, "timer")}
    ELSE PageIdle

\* the server works on a poll; the page gets its answer
PagePoll(r, reply) ==
    /\ AudioCheck(r) \/ AudioDetails(r, reply) \/ AudioRespond(r)
    /\ IF Answered(r) THEN pollForAudioAnswer(r.id, lastResp'.body) ELSE PageIdle

NextClient ==
    \/ \E values \in FormValues : onSubmit(values)
    \/ \E r \in inflight, reply \in AiReplies : PageGenerateLyrics(r, reply)
    \/ \E r \in inflight, reply \in SunoReplies : PageGenerateSubmit(r, reply)
    \/ \E p \in polls : pollForAudio(p)
    \/ \E p \in polls : pollForAudioFails(p)
    \/ \E r \in inflight, reply \in StoreReplies : PagePoll(r, reply)
    \/ \E id \in SongIds : SongsDelete(id) /\ PageIdle
    \/ AllAnswered /\ PageIdle

SpecClient == Init /\ [][NextClient]_vars

---------------------------------------------------------------------------
(* Properties *)

IsPoll(resp) == resp.kind = "audio"
IsGenerate(resp) == resp.kind = "generate"
Creates(resp) == resp.kind \in {"generate", "songs"} /\ resp.code = 201

\* C1: for every song, at most one write that assigns a non-null audioUrl
\* ever reaches the store, whatever webhooks and polls are delivered.
C1_AtMostOneAudioWrite == \A i \in SongIds : hist[i].n <= 1

\* C2: once a song's stored audioUrl is non-null, no later step changes it.
C2_ResolvedUrlKept ==
    [][\A i \in DOMAIN songs \cap DOMAIN songs' :
          songs[i].audioUrl # JNull => songs'[i].audioUrl = songs[i].audioUrl]_vars

\* C3: delivering a completion webhook twice leaves the store as delivering
\* it once does, for every reachable store and every completion payload.
C3_WebhookIdempotent ==
    \A body \in CompletionBodies :
        Deliver(Deliver(songs, body), body) = Deliver(songs, body)

\* a completion webhook has been delivered twice for one song, same URL
C3_Witness ==
    \E i \in DOMAIN songs :
        /\ hist[i].n = 2
        /\ hist[i].urls = {<<"callback", Str("u1")>>}
        /\ songs[i].audioUrl = Str("u1")

\* the URLs written to song i so far
WrittenUrls(i) == {w[2] : w \in hist[i].urls}

\* C4: when the webhook and the poll of a song resolve with the same URL U,
\* the stored audioUrl is U once either has written, and it is never a value
\* other than null and U.
C4_RaceConverges ==
    \A i \in DOMAIN songs :
        /\ songs[i].audioUrl \in {JNull} \cup WrittenUrls(i)
        /\ \A u \in Urls : WrittenUrls(i) = {Str(u)} => songs[i].audioUrl = Str(u)

\* a webhook and a poll both wrote the same URL to one song
C4_Witness ==
    \E i \in DOMAIN songs :
        /\ hist[i].urls = {<<"callback", Str("u1")>>, <<"audio", Str("u1")>>}
        /\ songs[i].audioUrl = Str("u1")

\* C5: every song is created with a null audioUrl and a non-null job id,
\* whichever route creates it and whatever the provider answered.
C5_CreatedSubmitted ==
    Creates(lastResp) =>
        /\ lastResp.body.audioUrl = JNull
        /\ lastResp.body.sunoJobId # JNull


\* C6: POST /api/songs/generate runs lyrics generation, job submission and
\* song persistence in that order: a failed lyrics call submits no job, and
\* a failed lyrics call or a failed submission ends the request with an
\* error response and leaves the song store unchanged.
C6_GenerateOrder ==
    [][\A r \in inflight :
          /\ \A reply \in AiReplies :
                GenerateLyrics(r, reply) /\ reply = AiError =>
                    /\ IsGenerate(lastResp') /\ lastResp'.code = 500
                    /\ lastResp'.suno = 0
                    /\ songs' = songs
          /\ \A reply \in SunoReplies :
                GenerateSubmit(r, reply) /\ (reply = Thrown \/ ~reply.ok) =>
                    /\ IsGenerate(lastResp') /\ lastResp'.code = 500
                    /\ songs' = songs
          /\ \A reply \in SunoReplies :
                GenerateSubmit(r, reply) /\ songs' # songs =>
                    /\ r.ai = 1 /\ r.suno = 1
                    /\ lastResp'.created \in DOMAIN songs' \ DOMAIN songs
      ]_vars

\* a generation whose job submission failed: error response, nothing stored
C6_Witness ==
    /\ IsGenerate(lastResp) /\ lastResp.code = 500
    /\ lastResp.ai = 1 /\ lastResp.suno = 1 /\ lastResp.created = 0
    /\ songs = <<>>

\* the requests that take a step: their record changes or leaves inflight
Stepping(r) == r \in inflight /\ r \notin inflight'

\* C7: a poll that reads a song with a non-null audioUrl answers success
\* with that URL, calls the provider not at all and writes nothing.
C7_ResolvedPollIsLocal ==
    [][\A r \in inflight :
          (/\ r.kind = "audio" /\ r.pc = "getSong"
           /\ r.song # NoSong /\ r.song.audioUrl # JNull
           /\ Stepping(r)) =>
              /\ IsPoll(lastResp') /\ lastResp'.code = 200
              /\ lastResp'.body = Success(r.song.audioUrl)
              /\ lastResp'.calls = 0 /\ lastResp'.wrote = Undef
              /\ \A q \in inflight' : q.rid # r.rid
              /\ songs' = songs /\ hist' = hist
      ]_vars

\* a poll answered success from the stored record alone
C7_Witness ==
    /\ IsPoll(lastResp) /\ lastResp.body = Success(Str("u1"))
    /\ lastResp.calls = 0 /\ lastResp.wrote = Undef
    /\ lastResp.id \in DOMAIN songs /\ songs[lastResp.id].audioUrl = Str("u1")


\* a poll of the submitted song has asked the provider and answered
Polled == IsPoll(lastResp) /\ lastResp.id = 1 /\ lastResp.calls = 1

\* the provider's answer can be read as an object
Readable(reply) == reply # Thrown /\ ~Throws(reply)

\* the example of the specification, a finished job with its URL X
ExampleReply ==
    Wrapped(Json([data |-> Arr(<<Track(Str("u1"))>>),
                  callbackType |-> Str("complete")]))

\* C8: the poll reports success and writes audioUrl exactly when a
\* normalized audio URL is found and callbackType is "complete"; otherwise
\* it reports running and writes nothing. The example reply yields success
\* with its URL.
C8_CompletionNeedsBoth ==
    Polled =>
        /\ IF /\ Readable(sunoStatus)
              /\ audio_url(sunoStatus) # JNull
              /\ Get(taskData(sunoStatus), "callbackType") = Str("complete")
           THEN /\ lastResp.body = Success(audio_url(sunoStatus))
                /\ lastResp.wrote = audio_url(sunoStatus)
                /\ songs[1].audioUrl = audio_url(sunoStatus)
                /\ hist[1].n >= 1
           ELSE /\ lastResp.body = Running
                /\ lastResp.wrote = Undef
                /\ songs[1].audioUrl = JNull
                /\ hist[1].n = 0
        /\ sunoStatus = ExampleReply => lastResp.body = Success(Str("u1"))

\* the example reply was polled and reported as success
C8_Witness ==
    /\ Polled /\ sunoStatus = ExampleReply
    /\ lastResp.body = Success(Str("u1")) /\ songs[1].audioUrl = Str("u1")

\* o is an object that carries a usable audio_url
HasUrl(o) ==
    /\ o.k = "object" /\ "audio_url" \in DOMAIN o.f
    /\ o.f.audio_url.k = "string" /\ o.f.audio_url.s # ""

\* the ordered fallback on a task payload: first element of a sequence,
\* then a single object, then the payload itself, else null
Fallback(payload) ==
    LET out == IF payload.k = "object" /\ "data" \in DOMAIN payload.f
               THEN payload.f.data ELSE Undef
    IN  IF out.k = "array" /\ Len(out.es) > 0 /\ HasUrl(out.es[1])
        THEN out.es[1].f.audio_url
        ELSE IF HasUrl(out) THEN out.f.audio_url
        ELSE IF HasUrl(payload) THEN payload.f.audio_url
        ELSE JNull

\* C9: the normalized audio URL of the poll is the ordered fallback over
\* the task payload, and a successful poll reports and stores that URL.
C9_OrderedFallback ==
    Readable(sunoStatus) =>
        /\ audio_url(sunoStatus) = Fallback(taskData(sunoStatus))
        /\ Polled /\ lastResp.body # Running =>
              /\ lastResp.body = Success(Fallback(taskData(sunoStatus)))
              /\ songs[1].audioUrl = Fallback(taskData(sunoStatus))

\* a reply with one URL in its sequence and another at top level was polled
C9_Witness ==
    /\ sunoStatus = Wrapped(Json([data |-> Arr(<<Track(Str("u1"))>>),
                                  callbackType |-> Str("complete"),
                                  audio_url |-> Str("u2")]))
    /\ Polled /\ lastResp.body = Success(Str("u1"))

\* the answer of a poll to reply, by the rule of C8 on the task payload
Outcome(reply) ==
    IF AudioCompletes(reply) THEN Success(audio_url(reply)) ELSE Running

\* C10: the poll gives the same result for a task payload returned bare as
\* for the same payload wrapped as {data: payload}.
C10_WrapIndependent ==
    Polled /\ sunoStatus \in TaskPayloads =>
        lastResp.body = Outcome(Wrapped(sunoStatus))

\* C11: a poll never reports an error: when the provider's status call
\* throws (a rejected call, an unreadable body), the poll answers
\* {status: "running"} and changes no song; every poll response is HTTP 200
\* with {status: "running"} or {status: "success", audioUrl}.
C11_PollNeverErrors ==
    [][/\ \A r \in {q \in inflight : q.kind = "audio"},
             reply \in {p \in StatusReplies : p = Thrown \/ Throws(p)} :
             AudioDetails(r, reply) =>
                 /\ IsPoll(lastResp') /\ lastResp'.code = 200
                 /\ lastResp'.body = Json([status |-> Str("running")])
                 /\ songs' = songs /\ hist' = hist
       /\ IsPoll(lastResp') =>
             /\ lastResp'.code = 200
             /\ lastResp'.body \in
                   {Json([status |-> Str("running")])} \cup
                   {Json([status |-> Str("success"), audioUrl |-> Str(u)]) : u \in Urls}
      ]_vars

\* a poll whose status call threw was answered running, its song untouched
C11_Witness ==
    /\ IsPoll(lastResp) /\ lastResp.caught /\ lastResp.calls = 1
    /\ lastResp.body = Json([status |-> Str("running")])
    /\ lastResp.id \in DOMAIN songs
    /\ songs[lastResp.id].audioUrl = JNull /\ hist[lastResp.id].n = 0

\* C12: when a poll of song s is answered {status: "success", audioUrl: U},
\* the store holds at that moment a song s whose audioUrl is not null.
C12_SuccessIsPersisted ==
    [][\A r \in inflight :
          (/\ r.kind = "audio" /\ Answered(r)
           /\ lastResp'.body \in {Success(Str(u)) : u \in Urls}) =>
              /\ r.id \in DOMAIN songs'
              /\ songs'[r.id].audioUrl # JNull
      ]_vars

C14_WebhookAlwaysAcknowledged ==
    [][/\ \A r \in inflight :
             (r.kind = "callback" /\ Answered(r)) =>
                 /\ lastResp'.code = 200
                 /\ lastResp'.body = Json([received |-> Bool(TRUE)])
       /\ lastResp'.kind = "callback" => lastResp'.code \in {200, 500}
      ]_vars

\* the job id, the completion marker and the URL of the first output
\* object of the delivered body, read off the body itself
BodyData == Get(callbackBody, "data")
BodyJob == Get(BodyData, "task_id")
BodyComplete == Get(BodyData, "callbackType") = Str("complete")
BodyUrl ==
    LET out == Get(BodyData, "data")
    IN  IF out.k = "array" /\ Len(out.es) > 0 THEN Get(out.es[1], "audio_url")
        ELSE Undef

\* song i as the store held it at the start
Initially(i) == IF i = 1 THEN SubmittedSong ELSE PlainSong

\* C15: a webhook for a matched song writes audioUrl only when its payload
\* has callbackType "complete" and an audio URL in its first output object;
\* otherwise the store stays as it was; either way the answer is 200
\* {received: true}; the URL written is the payload's, on the matched song.
C15_WebhookWritesOnCompletion ==
        /\ (lastResp.kind = "callback" /\ lastResp.code # 500 /\ lastResp.known) =>
               /\ lastResp.code = 200
               /\ lastResp.body = Json([received |-> Bool(TRUE)])
        /\ IF BodyComplete /\ BodyUrl # Undef
           THEN /\ \A i \in DOMAIN songs :
                     IF songs[i].sunoJobId = BodyJob
                     THEN /\ songs[i] \in {Initially(i),
                                            [Initially(i) EXCEPT !.audioUrl = BodyUrl]}
                          /\ hist[i].n > 0 => songs[i].audioUrl = BodyUrl
                     ELSE songs[i] = Initially(i) /\ hist[i].n = 0
                /\ (lastResp.kind = "callback" /\ lastResp.code # 500 /\ lastResp.known) =>
                       \A i \in DOMAIN songs :
                           songs[i].sunoJobId = BodyJob => songs[i].audioUrl = BodyUrl
           ELSE /\ hist = NoWrites
                /\ \A i \in DOMAIN songs : songs[i] = Initially(i)

\* a completion webhook for job j1 was acknowledged and its URL is on song 1
C15_Witness ==
    /\ callbackBody = Json([data |-> Json([task_id |-> Str("j1"),
                                           callbackType |-> Str("complete"),
                                           data |-> Arr(<<Track(Str("u2"))>>)])])
    /\ lastResp.kind = "callback" /\ lastResp.known /\ lastResp.code = 200
    /\ 1 \in DOMAIN songs /\ songs[1].audioUrl = Str("u2")
    /\ 2 \in DOMAIN songs /\ songs[2] = PlainSong

\* C16: Resolved is terminal: a song whose audioUrl is not null keeps a
\* non-null audioUrl in every later state in which the song exists.
C16_ResolvedIsTerminal ==
    [][\A i \in DOMAIN songs \cap DOMAIN songs' :
          songs[i].audioUrl # JNull => songs'[i].audioUrl # JNull]_vars

\* a resolved song was written again, by the other path with another URL,
\* and is still resolved
C16_Witness ==
    \E i \in DOMAIN songs :
        /\ hist[i].urls = {<<"callback", Str("u1")>>, <<"audio", Str("u2")>>}
        /\ songs[i].audioUrl # JNull

\* the provider answers the job of song 1 with "complete" and a URL
Completing == \E u \in Urls : sunoStatus = CompleteReply(u)

\* C17: once the provider's status endpoint answers the job of a stored
\* song with callbackType "complete" and an audio URL, and the song keeps
\* being polled, a poll answers success, and from some point on the song is
\* Resolved and every poll of it answers success with the stored URL
\* without calling the provider.
C17_PollingResolves ==
    /\ Completing ~>
          (IsPoll(lastResp) /\ lastResp.id = 1
           /\ lastResp.body = Success(songs[1].audioUrl))
    /\ Completing ~>
          [](/\ songs[1].audioUrl # JNull
             /\ (IsPoll(lastResp) /\ lastResp.id = 1) =>
                   /\ lastResp.body = Success(songs[1].audioUrl)
                   /\ lastResp.calls = 0)

\* the finished job was polled, stored, and polled again from the store
C17_Witness ==
    /\ sunoStatus = CompleteReply("u1")
    /\ songs[1].audioUrl = Str("u1") /\ hist[1].n = 1
    /\ IsPoll(lastResp) /\ lastResp.id = 1 /\ lastResp.calls = 0
    /\ lastResp.body = Success(Str("u1"))

\* a pollForAudio of song id is under way: its fetch is still to be sent,
\* or the server has not answered it yet
Polling(id) ==
    \/ \E p \in polls : p.songId = id
    \/ \E r \in inflight : r.kind = "audio" /\ r.id = id

\* C18: the page is the only retry driver: a "running" answer makes it
\* schedule one further poll of the same song; the polling of a song, once
\* started, goes on until a poll of that song is answered success; and a
\* poll reaches the server only when the page sends it.
C18_ClientDrivesRetries ==
    [][/\ \A r \in inflight :
             (r.kind = "audio" /\ Answered(r) /\ lastResp'.body = Running) =>
                 /\ Poll(r.id, "timer") \notin polls
                 /\ polls' = polls \cup {Poll(r.id, "timer")}
       /\ \A q \in inflight' :
             (q.kind = "audio" /\ \A r \in inflight : r.rid # q.rid) =>
                 \E p \in polls : p.songId = q.id /\ polls' = polls \ {p}
       /\ \A id \in SongIds :
             (Polling(id) /\ ~Polling(id)') =>
                 \E r \in inflight :
                     /\ r.kind = "audio" /\ r.id = id /\ Answered(r)
                     /\ Get(lastResp'.body, "status") = Str("success")
      ]_vars

\* the lyrics request r got back from generateSongWithAI
Returned(r) == r.kind = "generate" /\ r.pc = "generateMusicWithSuno"

\* a generation that failed before any job was submitted
LyricsFailed == IsGenerate(lastResp) /\ lastResp.code = 500 /\ lastResp.suno = 0

\* the answer is a text that is not only white space and that, without its
\* fences, is not the text of a JSON value
NotJson(reply) ==
    /\ reply.k = "string" /\ reply # Str("")
    /\ ~reply.blank /\ reply.rest.is # "json"

\* C19: for a non-empty answer that is not JSON once its fences are
\* stripped, generateSongWithAI does not fail and returns the raw text as
\* lyrics, title "Untitled Song", topic "General", and empty rhythmPattern
\* and culturalNotes.
C19_RawTextFallback ==
    NotJson(aiReply) =>
        /\ ~LyricsFailed
        /\ \A r \in inflight :
              Returned(r) =>
                  r.generated = Json([title |-> Str("Untitled Song"),
                                      topic |-> Str("General"),
                                      lyrics |-> aiReply,
                                      rhythmPattern |-> Str(""),
                                      culturalNotes |-> Str("")])
        /\ \A i \in DOMAIN songs :
              /\ songs[i].lyrics = aiReply
              /\ songs[i].title = Str("Untitled Song")

\* prose in a code fence came back; a song was stored with it as lyrics
C19_Witness ==
    /\ aiReply = AiText(TRUE, FALSE, Prose)
    /\ \E i \in DOMAIN songs : songs[i].lyrics = AiText(TRUE, FALSE, Prose)
    /\ \E r \in inflight : Returned(r) /\ Get(r.generated, "lyrics") = aiReply

\* C20: generateSongWithAI fails only when the text-generation call itself
\* fails: for every text the call returns (empty, not JSON, or any JSON
\* value, null included) it returns a result.
C20_FailsOnlyOnCallError ==
    aiReply # AiError => ~LyricsFailed


\* the object the answer parses to (SpecLyrics)
Parsed == aiReply.rest.v

\* what generateSongWithAI returned, wherever it is kept: in the requests
\* that wait for the provider and in the songs stored from it
Generated ==
    {r.generated.f : r \in {q \in inflight : Returned(q)}}
    \cup {[f \in FieldNames |-> songs[i][f]] : i \in DOMAIN songs}

\* C21 as stated: for an answer that parses to an object, each of the five
\* properties that is present is returned as given, and each absent one
\* falls back to its default, for every subset of present properties.
C21_PerFieldDefaults ==
    \A g \in Generated, f \in FieldNames :
        g[f] = IF f \in DOMAIN Parsed.f THEN Parsed.f[f] ELSE Defaults[f]

\* C21, amended: each property that is present with a non-empty string is
\* returned as given; each one that is absent, null or the empty string
\* falls back to its default, independently of the others.
C21_PerFieldDefaultsNonEmpty ==
    \A g \in Generated, f \in FieldNames :
        LET given == Get(Parsed, f)
        IN  g[f] = IF given.k = "string" /\ given # Str("")
                   THEN given ELSE Defaults[f]

\* the answer had topic and lyrics only; a song was stored with them and
\* with the default title
C21_Witness ==
    /\ DOMAIN Parsed.f = {"topic", "lyrics"}
    /\ \E i \in DOMAIN songs :
          /\ songs[i].title = Str("Untitled Song")
          /\ songs[i].topic = Str("Tp")
          /\ songs[i].lyrics = Str("L")


\* the text of the answer is missing, empty or only white space
EmptyText(reply) ==
    \/ reply \in {Undef, Str("")}
    \/ reply.k = "string" /\ reply # Str("") /\ reply.blank

\* C22: when the text of the answer is empty or only white space,
\* generateSongWithAI does not fail; it returns the placeholder defaults,
\* the job is submitted, and the song is stored with those values.
C22_EmptyTextDefaults ==
    EmptyText(aiReply) =>
        /\ ~LyricsFailed
        /\ \A r \in inflight :
              Returned(r) => r.generated = Json(Defaults) /\ r.suno = 1
        /\ \A i \in DOMAIN songs, f \in FieldNames : songs[i][f] = Defaults[f]

\* the answer was white space; the job was submitted and a song stored with
\* the placeholder title and empty lyrics
C22_Witness ==
    /\ aiReply = AiText(FALSE, TRUE, Nothing)
    /\ \E i \in DOMAIN songs :
          /\ songs[i].title = Str("Untitled Song")
          /\ songs[i].lyrics = Str("")
          /\ songs[i].sunoJobId \in {Str(j) : j \in JobIds}
    /\ IsGenerate(lastResp) /\ lastResp.code = 201 /\ lastResp.suno = 1


\* the two signal paths of the orchestrator
Signals == {"callback", "audio"}

\* a step of a webhook delivery or of a poll: such a request is received,
\* moves on, or is answered
SignalStep ==
    \/ \E r \in inflight' : r.kind \in Signals /\ r \notin inflight
    \/ \E r \in inflight : r.kind \in Signals /\ r \notin inflight'
    \/ lastResp' # lastResp /\ lastResp'.kind \in Signals

\* C23: every step of a webhook delivery or of a poll leaves every field
\* but audioUrl of every song unchanged, changes at most one song, leaves
\* the documents unchanged, and creates or deletes no song record.
C23_OnlyAudioUrlWritten ==
    [][SignalStep =>
          /\ DOMAIN songs' = DOMAIN songs
          /\ \A i \in DOMAIN songs :
                songs'[i] = [songs[i] EXCEPT !.audioUrl = songs'[i].audioUrl]
          /\ Cardinality({i \in DOMAIN songs : songs'[i] # songs[i]}) <= 1
          /\ documents' = documents
      ]_vars

\* the webhook and a poll both wrote the audioUrl of song 1, a document is
\* stored, and the rest of song 1 and all of song 2 are as they were
C23_Witness ==
    /\ 1 \in DOMAIN songs /\ 2 \in DOMAIN songs
    /\ Signals = {w[1] : w \in hist[1].urls}
    /\ songs[1].audioUrl # JNull
    /\ songs[1] = [SubmittedSong EXCEPT !.audioUrl = songs[1].audioUrl]
    /\ songs[2] = PlainSong
    /\ documents # <<>>


\* C24: a poll that reads a stored song with a null audioUrl and no job id
\* answers {status: "running"}, calls the provider not at all and writes
\* nothing to the store.
C24_NoJobPollIsLocal ==
    [][\A r \in inflight :
          (/\ r.kind = "audio" /\ r.pc = "getSong"
           /\ r.song # NoSong
           /\ r.song.audioUrl = JNull /\ r.song.sunoJobId = JNull
           /\ Stepping(r)) =>
              /\ IsPoll(lastResp') /\ lastResp'.code = 200
              /\ lastResp'.body = Running
              /\ lastResp'.calls = 0 /\ lastResp'.wrote = Undef
              /\ Answered(r)
              /\ songs' = songs /\ hist' = hist
      ]_vars

\* a poll of the song stored without a job answered running on its own
C24_Witness ==
    /\ IsPoll(lastResp) /\ lastResp.id = 2 /\ lastResp.body = Running
    /\ lastResp.calls = 0 /\ lastResp.wrote = Undef /\ ~lastResp.caught
    /\ 2 \in DOMAIN songs /\ songs[2] = PlainSong


\* the webhook body that carries the task payload p for the job of the
\* submitted song
WebhookOf(p) ==
    Json([data |-> Obj([f \in DOMAIN p.f \cup {"task_id"} |->
                          IF f = "task_id" THEN SubmittedSong.sunoJobId
                          ELSE p.f[f]])])

\* C25: for the same task payload (completion marker, output list as a
\* sequence or a single object, URL at top level), a poll that gets it from
\* the provider and a webhook delivery of it leave the same audioUrl on the
\* song: the same URL, or null.
C25_SignalsAgree ==
    \A p \in TaskPayloads :
        (sunoStatus = Wrapped(p) /\ Polled) =>
            songs[1].audioUrl =
                Deliver(Insert(<<>>, SubmittedSong), WebhookOf(p))[1].audioUrl


\* the property is there and is not one of the allowed tags
Outside(v, allowed) == v # Undef /\ v \notin {Str(t) : t \in allowed}

\* the content is shorter than 10 characters, or a tag is outside its
\* enumeration
Invalid(body) ==
    \/ Length(Get(body, "content")) < MinContent
    \/ Outside(Get(body, "musicalStyle"), Styles)
    \/ Outside(Get(body, "complexity"), Complexities)

\* the tag of the request, or the default when it is absent
Tag(v, default) == IF v = Undef THEN Str(default) ELSE v

\* C26: POST /api/songs/generate answers 400 to a request whose content is
\* shorter than 10 characters or whose musicalStyle or complexity is
\* outside its enumeration, calls neither provider and creates no song; a
\* request it accepts goes on with "traditional" and "simple" for an absent
\* style and complexity.
C26_InvalidRequestRejected ==
    [][\A body \in AllGenerateBodies :
          GenerateReceive(body) =>
              IF Invalid(body)
              THEN /\ IsGenerate(lastResp') /\ lastResp'.code = 400
                   /\ lastResp'.ai = 0 /\ lastResp'.suno = 0
                   /\ lastResp'.created = 0
                   /\ songs' = songs /\ inflight' = inflight
              ELSE \E r \in inflight' \ inflight :
                      /\ r.pc = "generateSongWithAI"
                      /\ r.data.musicalStyle =
                            Tag(Get(body, "musicalStyle"), "traditional")
                      /\ r.data.complexity =
                            Tag(Get(body, "complexity"), "simple")
      ]_vars

\* a request without tags was accepted and its song stored with the default
\* style; the last request was rejected without any call
C26_Witness ==
    /\ IsGenerate(lastResp) /\ lastResp.code = 400
    /\ lastResp.ai = 0 /\ lastResp.suno = 0
    /\ \E i \in DOMAIN songs : songs[i].musicalStyle = Str("traditional")


\* C27: a webhook delivery changes a song only if the job id stored with
\* that song is not null (and so is the task_id of the payload): a delivery
\* whose task_id is null or absent writes no audioUrl to a song stored
\* without a job id.
C27_WebhookNeedsJob ==
    [][\A r \in inflight :
          (r.kind = "callback" /\ Stepping(r) /\ songs' # songs) =>
              r.song.sunoJobId # JNull
      ]_vars


\* the ids that were given to a song and are no longer in the store
Deleted == {i \in 1..nextId : i \notin DOMAIN songs}

\* C28: a deleted song is never resurrected: once its id is gone from the
\* store no step brings it back, whatever poll or webhook write was pending
\* for it when it was deleted.
C28_DeletedStaysDeleted ==
    [][\A i \in Deleted : i \notin DOMAIN songs']_vars

\* song 1 was deleted while a poll and a webhook delivery for it were on
\* their way; both have run their updateSong since and nothing was stored
C28_Witness ==
    /\ 1 \in Deleted /\ 2 \in DOMAIN songs
    /\ hist[1].n = 0 /\ hist[2].n = 0
    /\ \E r \in inflight :
          r.kind = "audio" /\ r.id = 1 /\ r.pc = "updateSong" /\ r.wrote # Undef
    /\ lastResp.kind = "callback" /\ lastResp.code = 200
    /\ lastResp.known /\ lastResp.audioUrl # Undef


\* a poll that found no song answers running on its own
MissingPollIsLocal ==
    \A r \in inflight :
        (r.kind = "audio" /\ r.pc = "getSong" /\ r.song = NoSong /\ Stepping(r)) =>
            /\ IsPoll(lastResp') /\ lastResp'.code = 200
            /\ lastResp'.body = Running
            /\ lastResp'.calls = 0 /\ lastResp'.wrote = Undef
            /\ Answered(r)
            /\ songs' = songs /\ hist' = hist

\* C29: a poll for a song id that is not in the store answers
\* {status: "running"} (no 404, no error), calls the provider not at all
\* and changes no record; so the page that polls a deleted song gets
\* "running" each time and its polling of that song never stops (what may
\* still end it is the answer to a poll that read the song before it was
\* deleted).
C29_MissingSongPolledForever ==
    [][/\ MissingPollIsLocal
       /\ \A id \in Deleted :
             Polling(id) =>
                 \/ Polling(id)'
                 \/ \E r \in inflight :
                       r.kind = "audio" /\ r.id = id /\ r.song # NoSong /\ Answered(r)
      ]_vars


\* the page shows song id
Displayed(id) == page.generatedSong # JNull /\ page.generatedSong.id = id

\* C30: the audio URL the page shows is that of the song it shows: the
\* answer to a poll sets the displayed audioUrl only when the poll is for
\* the displayed generatedSong, and while a song is displayed no poll for
\* another song changes the displayed status.
C30_AudioOfDisplayedSong ==
    [][\A r \in inflight :
          (r.kind = "audio" /\ Answered(r)) =>
              /\ page'.audioUrl # page.audioUrl => Displayed(r.id)
              /\ (page.generatedSong # JNull
                    /\ page'.audioStatus # page.audioStatus) => Displayed(r.id)
      ]_vars

=============================================================================
